---------------------------- MODULE Spec2Model ----------------------------
(***************************************************************************)
(* A model of the executable fragments of the oceandata-notebooks          *)
(* repository.  The repository is a set of independent scripts; one run    *)
(* executes one of them, which the variable prog records.                  *)
(*                                                                         *)
(*   "generate_split"  notebooks/hackweek/ml_cloud_mask.py, generate_split *)
(*   "split_sizes"     the same function, its size computation alone       *)
(*   "cloud_mask"      notebooks/hackweek/ml_cloud_mask.py, the datasets   *)
(*   "write_par"       oci/oci_ocssw_processing.py, write_par              *)
(*   "update_setup"    book/update-setup.py, main                          *)
(*   "src_ext"         src/_ext/source_button.py, the html-page-context    *)
(*                     callback                                            *)
(*   "docs_ext"        docs/_ext/source_button.py, the same callback of    *)
(*                     the MyST book                                       *)
(*   "aolp"            pace_l1c/pace_l1c_aolp.py, aolp_fun2 and get_sign   *)
(***************************************************************************)
EXTENDS Integers, Sequences, FiniteSets, TLC

VARIABLES
    prog,        \* the script this run executes
    numImgs,     \* number of '*.png' files under CLDMASK_PATH / 'output'
    splitFiles,  \* '<name>.json' files: <<>> when absent, <<split>> when present
    splitCall,   \* what the last generate_split call did
    calls,       \* number of generate_split calls made so far
    corrupt,     \* image files of the data set that PIL cannot identify
    split,       \* the split loaded from 'default_split.json'
    datasets,    \* mode -> img_idxs of the CloudMaskDataset built for it
    item,        \* what the last CloudMaskDataset.__getitem__ call did
    par,         \* write_par: the items of the par dictionary, in order
    parFile,     \* write_par: the file at path
    reqs,        \* update-setup: the text of the requirements file
    script,      \* update-setup: the target script
    hdr,         \* src/_ext: context["header_buttons"] of the page
    hdrCall,     \* src/_ext: whether the callback ran, and the context before
    pages,       \* docs/_ext: pagename -> kind of the source file of the page
    download,    \* docs/_ext: whether the theme adds the download dropdown
    docCtx,      \* docs/_ext: pagename -> the callback's state and context
    built,       \* docs/_ext: <<path, page>>: the notebooks written, and whose
    qu,          \* aolp: the Stokes parameters <<q, u>> of a grid point
    aolp,        \* aolp: <<>> or <<aolp_fun2(q, u)>>
    sign,        \* aolp: <<>> or <<get_sign(aolp)>>
    sample,      \* mean_and_std: the array x
    stats,       \* mean_and_std: <<>> or <<the 2-tuple returned>>
    fpath,       \* nc_to_gtiff: the path it is called with
    granule,     \* nc_to_gtiff: the contents of the NetCDF file at fpath
    gtiff,       \* nc_to_gtiff: <<>> or <<what the call did>>
    ds,          \* Land_tutorial: the dataset ds, variable -> pixels
    cloudmasked, \* Land_tutorial: <<>> or <<cloudmasked_ds>>
    trainLen,    \* training loop: len(train_dataset)
    trainPc,     \* training loop: "idle", "loop" or "done"
    fetched,     \* training loop: batches drawn from train_loader so far
    losses,      \* training loop: the list losses
    accs,        \* training loop: the list accs
    numsValid,   \* training loop: the list nums_valid
    worker,      \* parallel build: pagename -> the state of its callback
    dirs,        \* parallel build: the directories that exist
    files,       \* parallel build: the notebooks written, path -> contents
    notebook,    \* gridding notebooks: the notebook being run
    cell,        \* gridding notebooks: the number of cells run so far
    clients,     \* gridding notebooks: the dask Clients started, their status
    client       \* gridding notebooks: the Client bound to the name client

splitVars == <<numImgs, splitFiles, splitCall, calls>>
maskVars == <<corrupt, split, datasets, item>>
parVars == <<par, parFile>>
setupVars == <<reqs, script>>
srcExtVars == <<hdr, hdrCall>>
docsExtVars == <<pages, download, docCtx, built>>
aolpVars == <<qu, aolp, sign>>
statVars == <<sample, stats>>
earlyVars ==
    <<splitVars, maskVars, parVars, setupVars, srcExtVars, docsExtVars, aolpVars>>
gtiffVars == <<fpath, granule, gtiff>>
landVars == <<ds, cloudmasked>>
trainVars == <<trainLen, trainPc, fetched, losses, accs, numsValid>>
poolVars == <<worker, dirs, files>>
daskVars == <<notebook, cell, clients, client>>
laterVars == <<statVars, gtiffVars, landVars, trainVars, poolVars, daskVars>>
vars ==
    <<prog, numImgs, splitFiles, splitCall, calls, corrupt, split, datasets, item,
      par, parFile, reqs, script, hdr, hdrCall, pages, download, docCtx, built,
      qu, aolp, sign, sample, stats, fpath, granule, gtiff, ds, cloudmasked,
      trainLen, trainPc, fetched, losses, accs, numsValid, worker, dirs, files,
      notebook, cell, clients, client>>

(***************************************************************************)
(* Bounds of the model.                                                    *)
(***************************************************************************)
MaxImgs == 4
MaxCorrupt == 1
MaxCalls == 2
MaxCount == 40
MaxValLen == 2
MaxReqLen == 4
MaxButtons == 2
MaxStemLen == 3
MaxNameLen == 3
GridMax == 5
MaxSample == 9
MaxSampleLen == 3
MaxPathLen == 3
MaxPixels == 2
MaxBands == 2
MaxGrid == 2
MaxTrainLen == 40

(***************************************************************************)
(* Python helpers.                                                         *)
(***************************************************************************)
Min(a, b) == IF a < b THEN a ELSE b

Max(a, b) == IF a > b THEN a ELSE b

\* Normalisation of a slice bound i for a sequence of length n.
PyIndex(i, n) == IF i < 0 THEN Max(n + i, 0) ELSE Min(i, n)

\* s[lo:hi] with Python's 0-based, possibly negative bounds.
PySlice(s, lo, hi) ==
    LET a == PyIndex(lo, Len(s))
        b == PyIndex(hi, Len(s))
    IN  IF a >= b THEN <<>> ELSE SubSeq(s, a + 1, b)

\* round(num / den) of Python 3: to the nearest integer, ties to even.
\* For 0.15 * n the float product rounds as the exact ratio 15n/100 does for
\* every n below 2,000,000, and for 0.7 * n as 7n/10 does for every n below 45.
PyRound(num, den) ==
    LET q == num \div den
        r == num % den
    IN  IF 2 * r < den THEN q
        ELSE IF 2 * r > den THEN q + 1
        ELSE IF q % 2 = 0 THEN q ELSE q + 1

\* The set of elements of a sequence.
Range(s) == {s[i] : i \in 1..Len(s)}

\* sorted(s) for a sequence of distinct integers.
RECURSIVE SortedSeq(_)
SortedSeq(S) ==
    IF S = {} THEN <<>>
    ELSE LET m == CHOOSE x \in S : \A y \in S : x <= y
         IN  <<m>> \o SortedSeq(S \ {m})

Sorted(s) == SortedSeq(Range(s))

\* The subsets of S with at most k elements.
RECURSIVE SubsetsUpTo(_, _)
SubsetsUpTo(S, k) ==
    IF k = 0 THEN {{}}
    ELSE LET T == SubsetsUpTo(S, k - 1)
         IN  T \cup {t \cup {x} : t \in T, x \in S}

\* The outcomes of np.random.shuffle(np.arange(n)): every ordering of 0..n-1.
Shuffles(n) ==
    {[i \in 1..n |-> p[i - 1]] : p \in Permutations(0..(n - 1))}

(***************************************************************************)
(* ml_cloud_mask.py: generate_split                                        *)
(***************************************************************************)
SplitNames == {"default_split", "my_split"}

Modes == {"train", "val", "test"}

\* num_train before the correction of line 158.
NumTrainRounded(n) == PyRound(7 * n, 10)

NumVal(n) == PyRound(15 * n, 100)

NumTest(n) == PyRound(15 * n, 100)

NumTrainNoFix(n) == NumTrainRounded(n)

\* num_train after "fix any rounding errors".
NumTrain(n) ==
    NumTrainRounded(n) + (n - (NumTrainRounded(n) + NumVal(n) + NumTest(n)))

\* img_idxs[-num_test:]
TestSlice(idxs, n) == PySlice(idxs, 0 - NumTest(n), Len(idxs))

\* The dictionary built from the shuffled img_idxs.
MakeSplit(idxs, n) ==
    [train |-> Sorted(PySlice(idxs, 0, NumTrain(n))),
     val   |-> Sorted(PySlice(idxs, NumTrain(n), NumTrain(n) + NumVal(n))),
     test  |-> Sorted(TestSlice(idxs, n))]

NoSplit == [train |-> <<>>, val |-> <<>>, test |-> <<>>]

NoCall ==
    [name |-> "", replace |-> FALSE, raised |-> FALSE, before |-> <<>>,
     made |-> NoSplit, sizes |-> <<0, 0, 0>>, n |-> 0, done |-> FALSE,
     sized |-> FALSE]

SplitRaisesAlways(replace, exists) == exists

\* if not replace and split_path.exists(): raise ValueError(...)
SplitRaises(replace, exists) == ~replace /\ exists

\* Lines 150-158 alone: the sizes for a directory of numImgs images.
SplitSizes ==
    /\ prog = "split_sizes"
    /\ ~splitCall.sized
    /\ splitCall' =
          [NoCall EXCEPT
              !.sizes = <<NumTrain(numImgs), NumVal(numImgs), NumTest(numImgs)>>,
              !.n = numImgs, !.sized = TRUE]
    /\ UNCHANGED <<prog, laterVars, numImgs, splitFiles, calls, maskVars, parVars, setupVars, srcExtVars, docsExtVars, aolpVars>>

GenerateSplit(name, replace, idxs) ==
    /\ prog = "generate_split"
    /\ calls < MaxCalls
    /\ calls' = calls + 1
    /\ LET made   == MakeSplit(idxs, numImgs)
           raised == SplitRaises(replace, splitFiles[name] # <<>>)
       IN  /\ splitCall' =
                 [name |-> name, replace |-> replace, raised |-> raised,
                  before |-> splitFiles[name], made |-> made,
                  sizes |-> <<NumTrain(numImgs), NumVal(numImgs), NumTest(numImgs)>>,
                  n |-> numImgs, done |-> TRUE, sized |-> TRUE]
           /\ splitFiles' =
                 IF raised THEN splitFiles
                 ELSE [splitFiles EXCEPT ![name] = <<made>>]
    /\ UNCHANGED <<prog, laterVars, numImgs, maskVars, parVars, setupVars, srcExtVars, docsExtVars, aolpVars>>

(***************************************************************************)
(* ml_cloud_mask.py: CloudMaskDataset                                      *)
(***************************************************************************)
\* The six PNG files of image k: four inputs, the validity mask, the label.
FileKinds == {"input_0", "input_1", "input_2", "input_3", "mask", "output"}

ImageFiles(n) == (0..(n - 1)) \X FileKinds

Zeros(shape) == [shape |-> shape, fill |-> "zeros"]

Decoded(shape) == [shape |-> shape, fill |-> "decoded"]

NoItem ==
    [mode |-> "", idx |-> 0, called |-> FALSE, loaded |-> 0, failed |-> FALSE,
     raised |-> FALSE, input |-> Zeros(<<>>), valid |-> Zeros(<<>>), labels |-> Zeros(<<>>)]

\* CloudMaskDataset.__init__: self.img_idxs = split[self.mode]
DatasetInit(s, mode) == s[mode]

\* CloudMaskDataset.__len__
DatasetLen(mode) == Len(datasets[mode])

\* The image index whose files __getitem__(idx) opens: the f-strings of lines
\* 223, 224 and 229 format idx itself.
LoadedIndex(mode, idx) == idx

\* Image.open raises UnidentifiedImageError on any of the six files.
Unidentified(k) == \E f \in FileKinds : <<k, f>> \in corrupt

CaughtInputsOnly(k) ==
    \E f \in {"input_0", "input_1", "input_2", "input_3"} : <<k, f>> \in corrupt

\* The try block of lines 225-233 holds all six Image.open calls, so its
\* except clause catches the error of whichever file raises it.
Caught(k) == Unidentified(k)

GetItemResult(mode, idx) ==
    LET k == LoadedIndex(mode, idx)
        r == [NoItem EXCEPT !.mode = mode, !.idx = idx, !.called = TRUE,
                            !.loaded = k]
    IN  IF Unidentified(k)
        THEN IF Caught(k)
             THEN [r EXCEPT !.failed = TRUE,
                            !.input = Zeros(<<64, 64, 12>>),
                            !.valid = Zeros(<<64, 64>>),
                            !.labels = Zeros(<<64, 64>>)]
             ELSE [r EXCEPT !.failed = TRUE, !.raised = TRUE]
        ELSE [r EXCEPT !.input = Decoded(<<64, 64, 12>>),
                       !.valid = Decoded(<<64, 64>>),
                       !.labels = Decoded(<<64, 64>>)]

GetItem(mode, idx) ==
    /\ prog = "cloud_mask"
    /\ idx \in 0..(DatasetLen(mode) - 1)
    /\ item' = GetItemResult(mode, idx)
    /\ UNCHANGED <<prog, laterVars, splitVars, corrupt, split, datasets, parVars, setupVars, srcExtVars, docsExtVars, aolpVars>>

(***************************************************************************)
(* oci_ocssw_processing.py: write_par                                      *)
(*                                                                         *)
(* Text is a sequence of one-character strings.                            *)
(***************************************************************************)
\* csv.writer(file, delimiter="="): the excel dialect with another delimiter.
Delimiter == "="

QuoteChar == "\""

LineTerminator == <<"\r", "\n">>

\* The characters of the parameter values the model draws from.
ValueChars == {"a", " ", "=", "\""}

RECURSIVE SeqsUpTo(_, _)
SeqsUpTo(S, k) ==
    IF k = 0 THEN {<<>>}
    ELSE LET T == SeqsUpTo(S, k - 1)
         IN  T \cup {Append(t, x) : t \in T, x \in S}

ParNames == {<<"i", "f", "i", "l", "e">>, <<"s", "u", "i", "t", "e">>}

ParValues == SeqsUpTo(ValueChars, MaxValLen)

\* The orders in which a dictionary can hold some of the names: its keys
\* are distinct.
ParKeys ==
    {ks \in SeqsUpTo(ParNames, Cardinality(ParNames)) :
        \A i, j \in 1..Len(ks) : ks[i] = ks[j] => i = j}

\* par.items()
ParDicts ==
    UNION {{[i \in 1..Len(ks) |-> <<ks[i], vs[i]>>] :
               vs \in [1..Len(ks) -> ParValues]} : ks \in ParKeys}

NoFile == [written |-> FALSE, text |-> <<>>]

\* QUOTE_MINIMAL: a field is quoted when it holds the delimiter, the quote
\* character or a character of the line terminator.
NeedsQuote(field) ==
    \E i \in 1..Len(field) :
        field[i] \in {Delimiter, QuoteChar} \cup Range(LineTerminator)

\* doublequote: a quote character inside a field is written twice.
RECURSIVE DoubleQuotes(_)
DoubleQuotes(field) ==
    IF field = <<>> THEN <<>>
    ELSE (IF Head(field) = QuoteChar THEN <<QuoteChar, QuoteChar>>
          ELSE <<Head(field)>>) \o DoubleQuotes(Tail(field))

CsvField(field) ==
    IF NeedsQuote(field)
    THEN <<QuoteChar>> \o DoubleQuotes(field) \o <<QuoteChar>>
    ELSE field

\* writer.writerow((name, value))
CsvRow(row) ==
    CsvField(row[1]) \o <<Delimiter>> \o CsvField(row[2]) \o LineTerminator

\* writer.writerows(par.items())
RECURSIVE CsvRows(_)
CsvRows(rows) ==
    IF rows = <<>> THEN <<>> ELSE CsvRow(Head(rows)) \o CsvRows(Tail(rows))

\* with open(path, "w") as file: ... writer.writerows(par.items())
WritePar ==
    /\ prog = "write_par"
    /\ ~parFile.written
    /\ parFile' = [written |-> TRUE, text |-> CsvRows(par)]
    /\ UNCHANGED <<prog, laterVars, splitVars, maskVars, par, setupVars, srcExtVars, docsExtVars, aolpVars>>

(***************************************************************************)
(* book/update-setup.py: main                                              *)
(***************************************************************************)
\* The characters of the requirements file the model draws from.
ReqChars == {"p", " ", "#", "\n"}

\* The target script as parse reads it: the type of its leading "# /// type"
\* block, the TOML document of the block, and the text after the block.
Scripts ==
    [type |-> "script",
     toml |-> [requires |-> <<"3", ".", "1", "1">>, dependencies |-> <<<<"o">>>>],
     body |-> "body", updated |-> FALSE]

\* str.splitlines: the text between line breaks; a line break at the end of
\* the text does not start another line.
RECURSIVE SplitLinesFrom(_, _)
SplitLinesFrom(text, line) ==
    IF text = <<>> THEN (IF line = <<>> THEN <<>> ELSE <<line>>)
    ELSE IF Head(text) = "\n" THEN <<line>> \o SplitLinesFrom(Tail(text), <<>>)
    ELSE SplitLinesFrom(Tail(text), Append(line, Head(text)))

SplitLines(text) == SplitLinesFrom(text, <<>>)

\* comment.match(line) for comment = re.compile(r"^\s*#")
RECURSIVE CommentMatch(_)
CommentMatch(line) ==
    /\ line # <<>>
    /\ \/ Head(line) = "#"
       \/ Head(line) = " " /\ CommentMatch(Tail(line))

\* The condition of the list comprehension of line 13.
KeepLine(line) == ~CommentMatch(line)

\* pkgs = [i for i in pkgs.splitlines() if not comment.match(i)]
Pkgs(text) == SelectSeq(SplitLines(text), KeepLine)

\* main: the block is written back as "# /// script" with the dependencies
\* of the TOML document replaced by pkgs, followed by the body.
UpdateSetup ==
    /\ prog = "update_setup"
    /\ ~script.updated
    /\ script' =
          [type |-> "script",
           toml |-> [script.toml EXCEPT !.dependencies = Pkgs(reqs)],
           body |-> script.body, updated |-> TRUE]
    /\ UNCHANGED <<prog, laterVars, splitVars, maskVars, parVars, reqs, srcExtVars, docsExtVars, aolpVars>>

(***************************************************************************)
(* src/_ext/source_button.py: update_header_source_buttons                 *)
(***************************************************************************)
\* The characters of the URLs the model draws from.
UrlChars == {"a", ".", "p", "y"}

\* The URL of the '.py' button of a page: the path of its source file.
PyUrl(stem) == stem \o <<".", "p", "y">>

OtherPyUrl == <<"o", ".", "p", "y">>

PdfUrl == <<"a", ".", "p", "d", "f">>

Button(text, url) == [text |-> text, url |-> url]

\* The dropdowns the theme can have built: at most MaxButtons buttons, among
\* them the '.py' button of the page, a second '.py' button and a '.pdf' one.
Dropdowns(url) ==
    SeqsUpTo({Button(".py", url), Button(".py", OtherPyUrl), Button(".pdf", PdfUrl)},
             MaxButtons)

\* A header button: the classes of its icon (icon.split()) and its buttons.
DownloadGroup(buttons) ==
    [icon |-> <<"fas", "fa-download">>, buttons |-> buttons]

RepoGroup ==
    [icon |-> <<"fab", "fa-github">>,
     buttons |-> <<Button("repository", <<"r">>)>>]

\* The theme adds at most one download dropdown, before or after the others.
Headers(url) ==
    {<<>>, <<RepoGroup>>}
    \cup {<<DownloadGroup(d)>> : d \in Dropdowns(url)}
    \cup {<<RepoGroup, DownloadGroup(d)>> : d \in Dropdowns(url)}
    \cup {<<DownloadGroup(d), RepoGroup>> : d \in Dropdowns(url)}

\* The index of the first element of s that is in the set T, or 0:
\* next((i for i in s if ...), False).
FirstIndex(s, T) ==
    IF \E i \in 1..Len(s) : s[i] \in T
    THEN CHOOSE i \in 1..Len(s) : s[i] \in T /\ \A j \in 1..(i - 1) : s[j] \notin T
    ELSE 0

IsDownload(group) == "fa-download" \in Range(group.icon)

\* The elements of a list that the condition of a generator selects.
Downloads(buttons) == {b \in Range(buttons) : IsDownload(b)}

WithText(buttons, text) == {b \in Range(buttons) : b.text = text}

\* text.startswith(old)
StartsWith(text, old) ==
    Len(text) >= Len(old) /\ SubSeq(text, 1, Len(old)) = old

\* str.replace(old, new): every occurrence, from the left, without overlap.
RECURSIVE PyReplace(_, _, _)
PyReplace(text, old, new) ==
    IF text = <<>> THEN <<>>
    ELSE IF StartsWith(text, old)
         THEN new \o PyReplace(SubSeq(text, Len(old) + 1, Len(text)), old, new)
         ELSE <<Head(text)>> \o PyReplace(Tail(text), old, new)

Ipynb == <<".", "i", "p", "y", "n", "b">>

\* {**py_button, "text": ".ipynb", "url": py_button["url"].replace(...)}
IpynbButtonSrc(py) ==
    [py EXCEPT !.text = ".ipynb",
               !.url = PyReplace(py.url, <<".", "p", "y">>, Ipynb)]

InsertLast(buttons, b) == Append(buttons, b)

\* dropdown_buttons.insert(0, ipynb_button)
InsertFirst(buttons, b) == <<b>> \o buttons

\* The header buttons after the callback: the dropdown is the list object of
\* the context, so the insert changes the context in place.
HeaderAfterSrc(buttons) ==
    LET g == FirstIndex(buttons, Downloads(buttons))
    IN  IF g = 0 \/ buttons[g].buttons = <<>> THEN buttons
        ELSE LET dropdown == buttons[g].buttons
                 k == FirstIndex(dropdown, WithText(dropdown, ".py"))
             IN  IF k = 0 THEN buttons
                 ELSE [buttons EXCEPT
                          ![g].buttons =
                              InsertFirst(dropdown, IpynbButtonSrc(dropdown[k]))]

UpdateHeaderSourceButtonsSrc ==
    /\ prog = "src_ext"
    /\ ~hdrCall.called
    /\ hdrCall' = [called |-> TRUE, before |-> hdr]
    /\ hdr' = HeaderAfterSrc(hdr)
    /\ UNCHANGED <<prog, laterVars, splitVars, maskVars, parVars, setupVars, docsExtVars, aolpVars>>

(***************************************************************************)
(* docs/_ext/source_button.py: update_header_source_buttons                *)
(*                                                                         *)
(* A path is a sequence of directory names, "/" and the characters of the  *)
(* file name.                                                              *)
(***************************************************************************)
DocChars == {"a", ".", "/"}

\* A pagename: directories and a name, none empty, none starting or ending
\* with a dot.
IsDocName(n) ==
    /\ n # <<>>
    /\ n[1] = "a"
    /\ n[Len(n)] = "a"
    /\ \A i \in 1..(Len(n) - 1) : n[i] = "a" \/ n[i + 1] = "a"

DocNames == {n \in SeqsUpTo(DocChars, MaxNameLen) : IsDocName(n)}

\* The source of a page: MyST markdown whose jupytext metadata names the format
\* "myst", markdown of another format_name, markdown without the jupytext
\* metadata, or reStructuredText.
Kinds == {"myst", "markdown", "nokey", "rst"}

Md == <<".", "m", "d">>

Rst == <<".", "r", "s", "t">>

SourceSuffix(kind) == IF kind = "rst" THEN Rst ELSE Md

\* The source file of page p.
SourcePath(p, kind) == <<"docs", "/">> \o p \o SourceSuffix(kind)

\* The header buttons the theme builds for page p: the button of the source
\* file and a '.pdf' button in the download dropdown.
ThemeHeader(p, kind, dl) ==
    IF dl
    THEN <<RepoGroup,
           DownloadGroup(
               <<Button(IF kind = "rst" THEN ".rst" ELSE ".md",
                        <<"_sources", "/">> \o p \o SourceSuffix(kind)),
                 Button(".pdf", PdfUrl)>>)>>
    ELSE <<RepoGroup>>

\* The position of the last element of s equal to x, or 0: s.rfind(x) + 1.
LastIndexOf(s, x) ==
    IF \E i \in 1..Len(s) : s[i] = x
    THEN CHOOSE i \in 1..Len(s) : s[i] = x /\ \A j \in (i + 1)..Len(s) : s[j] # x
    ELSE 0

\* PurePath.name: the last component of the path.
PathName(path) == SubSeq(path, LastIndexOf(path, "/") + 1, Len(path))

\* PurePath.suffix: from the last dot of the name, unless the dot starts or
\* ends the name.
PathSuffix(path) ==
    LET name == PathName(path)
        i == LastIndexOf(name, ".")
    IN  IF 1 < i /\ i < Len(name) THEN SubSeq(name, i, Len(name)) ELSE <<>>

\* PurePath.with_suffix: the suffix replaces the one the name has.
WithSuffix(path, suffix) ==
    SubSeq(path, 1, Len(path) - Len(PathSuffix(path))) \o suffix

\* Path("docs", pagename).with_suffix(".md")
ReadPath(p) == WithSuffix(<<"docs", "/">> \o p, Md)

BuildDir == <<"docs", "/", "_build", "/", "html", "/", "_sources", "/">>

\* Path("docs", "_build", "html", "_sources", pagename).with_suffix(".ipynb")
WritePath(p) == WithSuffix(BuildDir \o p, Ipynb)

\* The pages whose markdown source is the file at path.
PagesAt(path) ==
    {q \in DOMAIN pages : pages[q] # "rst" /\ SourcePath(q, pages[q]) = path}

\* {**md_button, "text": ".ipynb", "url": md_button["url"][:-3] + ".ipynb"}
IpynbButtonDocs(md) ==
    [md EXCEPT !.text = ".ipynb",
               !.url = PySlice(md.url, 0, Len(md.url) - 3) \o Ipynb]

\* The first '.md' button of the download dropdown of a header, or <<>>.
MdButton(header) ==
    LET g == FirstIndex(header, Downloads(header))
        dropdown == IF g = 0 THEN <<>> ELSE header[g].buttons
        k == FirstIndex(dropdown, WithText(dropdown, ".md"))
    IN  IF k = 0 THEN <<>> ELSE <<dropdown[k]>>

\* The callback for page p.  jupytext.read raises FileNotFoundError when
\* there is no file at the path it is given, and the build stops.
UpdateHeaderSourceButtonsDocs(p) ==
    /\ prog = "docs_ext"
    /\ docCtx[p].state = "pending"
    /\ \A q \in DOMAIN pages : docCtx[q].state # "raised"
    /\ LET header == docCtx[p].header
           md == MdButton(header)
           g == FirstIndex(header, Downloads(header))
       IN  IF md = <<>>
           THEN /\ docCtx' = [docCtx EXCEPT ![p].state = "done"]
                /\ built' = built
           ELSE IF PagesAt(ReadPath(p)) = {}
           THEN /\ docCtx' = [docCtx EXCEPT ![p].state = "raised"]
                /\ built' = built
           ELSE LET q == CHOOSE q \in PagesAt(ReadPath(p)) : TRUE
                IN  IF pages[q] = "myst"
                    THEN /\ built' =
                              {x \in built : x[1] # WritePath(p)}
                                  \cup {<<WritePath(p), q>>}
                         /\ docCtx' =
                              [docCtx EXCEPT
                                  ![p].state = "done",
                                  ![p].wrote = WritePath(p),
                                  ![p].header[g].buttons =
                                      InsertFirst(@, IpynbButtonDocs(md[1]))]
                    ELSE /\ docCtx' = [docCtx EXCEPT ![p].state = "done"]
                         /\ built' = built
    /\ UNCHANGED <<prog, laterVars, splitVars, maskVars, parVars, setupVars, srcExtVars,
                   pages, download, aolpVars>>

(***************************************************************************)
(* pace_l1c_aolp.py: aolp_fun2 and get_sign                                *)
(*                                                                         *)
(* An angle is an interval [lo, hi]: the exact value lo when lo = hi, and  *)
(* otherwise some value strictly between lo and hi.  Radians are counted   *)
(* in units of pi / PiTicks and degrees in tenths of a degree.  On integer *)
(* coordinates arctan2 is exact on the axes and the diagonals and lies     *)
(* strictly inside an octant elsewhere.                                    *)
(***************************************************************************)
PiTicks == 8

\* 180 degrees, in tenths of a degree.
HalfTurn == 1800

Exact(x) == [lo |-> x, hi |-> x]

Between(a, b) == [lo |-> a, hi |-> b]

Negated(a) == [lo |-> 0 - a.hi, hi |-> 0 - a.lo]

Shifted(a, x) == [lo |-> a.lo + x, hi |-> a.hi + x]

\* a * num / den for positive num and den that divide evenly.
Scaled(a, num, den) == [lo |-> (a.lo * num) \div den, hi |-> (a.hi * num) \div den]

\* a < 0: no interval of the model has 0 strictly inside.
IsNegative(a) == a.lo < 0 /\ a.hi <= 0

\* np.arctan2(u, q) for u >= 0.
Arctan2Upper(u, q) ==
    IF u = 0 THEN (IF q >= 0 THEN Exact(0) ELSE Exact(PiTicks))
    ELSE IF q > u THEN Between(0, PiTicks \div 4)
    ELSE IF q = u THEN Exact(PiTicks \div 4)
    ELSE IF q > 0 THEN Between(PiTicks \div 4, PiTicks \div 2)
    ELSE IF q = 0 THEN Exact(PiTicks \div 2)
    ELSE IF q > 0 - u THEN Between(PiTicks \div 2, (3 * PiTicks) \div 4)
    ELSE IF q = 0 - u THEN Exact((3 * PiTicks) \div 4)
    ELSE Between((3 * PiTicks) \div 4, PiTicks)

\* np.arctan2(u, q): in [-pi, pi], of the sign of u.
Arctan2(u, q) ==
    IF u >= 0 THEN Arctan2Upper(u, q) ELSE Negated(Arctan2Upper(0 - u, q))

NoHalf(a) == a

\* 1/2 * a
Half(a) == Scaled(a, 1, 2)

NoWhere(a) == a

\* np.where(aolp < 0, aolp + np.pi, aolp)
WhereNegative(a) == IF IsNegative(a) THEN Shifted(a, PiTicks) ELSE a

\* aolp *= 180 / np.pi
ToDegrees(a) == Scaled(a, HalfTurn, PiTicks)

\* aolp * np.pi / 180
ToRadians(a) == Scaled(a, PiTicks, HalfTurn)

Aolp2(q, u) == ToDegrees(WhereNegative(Half(Arctan2(u, q))))

\* np.sign(np.cos(x)) for x in [0, 2 pi].  In floating point pi/2 and 3 pi/2
\* are not zeros of cos: np.cos(2 * 45 * np.pi / 180) is 6.1e-17 and
\* np.cos(2 * 135 * np.pi / 180) is -1.8e-16.
CosSign(x) ==
    IF x.hi <= PiTicks \div 2 THEN 1
    ELSE IF x.lo >= (3 * PiTicks) \div 2
         THEN (IF x.hi = (3 * PiTicks) \div 2 THEN -1 ELSE 1)
    ELSE -1

\* np.sign(np.cos(2 * aolp * np.pi / 180))
SignOf(a) == CosSign(ToRadians(Scaled(a, 2, 1)))

AolpFun2 ==
    /\ prog = "aolp"
    /\ aolp = <<>>
    /\ aolp' = <<Aolp2(qu[1], qu[2])>>
    /\ UNCHANGED <<prog, laterVars, splitVars, maskVars, parVars, setupVars, srcExtVars,
                   docsExtVars, qu, sign>>

GetSign ==
    /\ prog = "aolp"
    /\ aolp # <<>>
    /\ sign = <<>>
    /\ sign' = <<SignOf(aolp[1])>>
    /\ UNCHANGED <<prog, laterVars, splitVars, maskVars, parVars, setupVars, srcExtVars,
                   docsExtVars, qu, aolp>>

(***************************************************************************)
(* dask_gridding.py and oci_gridding.py: mean_and_std                      *)
(*                                                                         *)
(* The elements of x are binary floating-point numbers.  A finite float is *)
(* m * 2^e with |m| < 2^MantBits, kept with m odd (or m = e = 0); every    *)
(* operation rounds its exact result to the nearest such number, ties to   *)
(* even.  float64 has 53 bits where the model has MantBits.                *)
(***************************************************************************)
MantBits == 5

RECURSIVE Pow2(_)
Pow2(k) == IF k = 0 THEN 1 ELSE 2 * Pow2(k - 1)

Num(m, e) == [cls |-> "num", m |-> m, e |-> e]

NaN == [cls |-> "nan", m |-> 0, e |-> 0]

RECURSIVE Canonical(_, _)
Canonical(m, e) ==
    IF m = 0 THEN Num(0, 0)
    ELSE IF m % 2 = 0 THEN Canonical(m \div 2, e + 1)
    ELSE Num(m, e)

\* The integer nearest to a / b, ties to even (a >= 0, b > 0).
RoundHalfEven(a, b) ==
    LET q == a \div b
        r == a % b
    IN  IF 2 * r < b THEN q
        ELSE IF 2 * r > b THEN q + 1
        ELSE IF q % 2 = 0 THEN q ELSE q + 1

\* The float nearest to (a / b) * 2^e, for a > 0 and b > 0.
RECURSIVE RoundTo(_, _, _)
RoundTo(a, b, e) ==
    IF a >= Pow2(MantBits) * b THEN RoundTo(a, 2 * b, e + 1)
    ELSE IF a < Pow2(MantBits - 1) * b THEN RoundTo(2 * a, b, e - 1)
    ELSE Canonical(RoundHalfEven(a, b), e)

\* The float nearest to (n / b) * 2^e, for b > 0.
Fl(n, b, e) ==
    IF n = 0 THEN Num(0, 0)
    ELSE LET r == RoundTo(IF n < 0 THEN -n ELSE n, b, e)
         IN  IF n < 0 THEN Num(-r.m, r.e) ELSE r

\* float(i)
FromInt(i) == Fl(i, 1, 0)

\* x + y; x - y is x + (-y)
FAdd(x, y) ==
    LET e == Min(x.e, y.e)
    IN  Fl(x.m * Pow2(x.e - e) + y.m * Pow2(y.e - e), 1, e)

\* x * y, x ** 2
FMul(x, y) == Fl(x.m * y.m, 1, x.e + y.e)

\* x / k for an integer k >= 0: numpy divides by zero with a warning and the
\* result nan or inf.
FDivInt(x, k) ==
    IF k = 0
    THEN IF x.m = 0 THEN NaN
         ELSE [cls |-> IF x.m < 0 THEN "-inf" ELSE "inf", m |-> 0, e |-> 0]
    ELSE Fl(x.m, k, x.e)

\* The float nearest to sqrt(a / b) * 2^g, for a > 0 and b > 0.
RECURSIVE SqrtTo(_, _, _)
SqrtTo(a, b, g) ==
    IF a >= Pow2(2 * MantBits) * b THEN SqrtTo(a, 4 * b, g + 1)
    ELSE IF a < Pow2(2 * MantBits - 2) * b THEN SqrtTo(4 * a, b, g - 1)
    ELSE LET r == CHOOSE r \in Pow2(MantBits - 1)..(Pow2(MantBits) - 1) :
                      r * r * b <= a /\ a < (r + 1) * (r + 1) * b
         IN  Canonical(IF 4 * a > (2 * r + 1) * (2 * r + 1) * b THEN r + 1 ELSE r, g)

\* x ** (1 / 2), np.sqrt(x): nan for a negative x.
FSqrt(x) ==
    IF x.cls = "inf" THEN x
    ELSE IF x.cls # "num" \/ x.m < 0 THEN NaN
    ELSE IF x.m = 0 THEN x
    ELSE SqrtTo(IF x.e % 2 = 0 THEN x.m ELSE 2 * x.m, 1, (x.e - (x.e % 2)) \div 2)

\* s after k rounds of the loop: s += i
RECURSIVE LoopSum(_, _)
LoopSum(x, k) ==
    IF k = 0 THEN Num(0, 0) ELSE FAdd(LoopSum(x, k - 1), FromInt(x[k]))

\* ss after k rounds of the loop: ss += i**2
RECURSIVE LoopSumSquares(_, _)
LoopSumSquares(x, k) ==
    IF k = 0 THEN Num(0, 0)
    ELSE FAdd(LoopSumSquares(x, k - 1), FMul(FromInt(x[k]), FromInt(x[k])))

MeanAndStdResult(x) ==
    LET n == Len(x)
        s == LoopSum(x, n)
        ss == LoopSumSquares(x, n)
        mean == FDivInt(s, n)
        square == FMul(mean, mean)
        variance ==
            FDivInt(FMul(FAdd(FDivInt(ss, n), Num(-square.m, square.e)), FromInt(n)),
                    n - 1)
    IN  [mean |-> mean, std |-> FSqrt(variance), divides_by |-> n - 1]

\* array.mean(): the sum of the elements, in order for a short array, over n.
NumpyMean(x) == FDivInt(LoopSum(x, Len(x)), Len(x))

\* The sum of the first k squared deviations from the mean.
RECURSIVE SumSquaredDeviations(_, _)
SumSquaredDeviations(x, k) ==
    IF k = 0 THEN Num(0, 0)
    ELSE LET dev == FAdd(FromInt(x[k]), Num(-NumpyMean(x).m, NumpyMean(x).e))
         IN  FAdd(SumSquaredDeviations(x, k - 1), FMul(dev, dev))

\* array.std(ddof=1)
NumpyStd(x) == FSqrt(FDivInt(SumSquaredDeviations(x, Len(x)), Len(x) - 1))

MeanAndStd ==
    /\ prog = "mean_and_std"
    /\ stats = <<>>
    /\ stats' = <<MeanAndStdResult(sample)>>
    /\ UNCHANGED <<prog, earlyVars, gtiffVars, landVars, trainVars, poolVars, daskVars,
                   sample>>

(***************************************************************************)
(* oci_project_and_format.py: nc_to_gtiff                                  *)
(*                                                                         *)
(* A path is a sequence of tokens: the suite names, another word, "." and  *)
(* "/".  A dataset maps a variable to its pixels; a pixel is <<value>>, or *)
(* <<>> when it is missing (NaN).                                          *)
(***************************************************************************)
Suites == {"SFREFL", "LANDVI"}

\* The paths to a file: directories and a name, none empty, none starting or
\* ending with a dot.
FilePaths ==
    {f \in SeqsUpTo(Suites \cup {"x", ".", "/"}, MaxPathLen) :
        /\ f # <<>>
        /\ {f[1], f[Len(f)]} \cap {".", "/"} = {}
        /\ \A i \in 1..(Len(f) - 1) : {f[i], f[i + 1]} \cap {".", "/"} # {f[i], f[i + 1]}}

\* "SFREFL" in fpath
Contains(f, word) == word \in Range(f)

\* The suites a PACE file of this name can hold: the name of a granule
\* carries its suite.
ContentSuites(f) ==
    IF Suites \cap Range(PathName(f)) = {} THEN {"OTHER"}
    ELSE Suites \cap Range(PathName(f))

\* dt["geophysical_data"]: the variables of a Level-2 file of the suite.
GeophysicalData(suite) ==
    IF suite = "SFREFL" THEN {"rhos", "l2_flags"}
    ELSE IF suite = "LANDVI" THEN {"cire", "ndvi", "l2_flags"}
    ELSE {"chlor_a", "l2_flags"}

\* The bit of the CLDICE flag in l2_flags.
CldiceBit == 9

\* a & b, for a >= 0 and b >= 0
RECURSIVE BitAnd(_, _)
BitAnd(a, b) ==
    IF a = 0 \/ b = 0 THEN 0
    ELSE (a % 2) * (b % 2) + 2 * BitAnd(a \div 2, b \div 2)

\* The sum of 2^b over the bits b of a set.
RECURSIVE FlagWord(_)
FlagWord(bits) ==
    IF bits = {} THEN 0
    ELSE LET b == CHOOSE b \in bits : TRUE
         IN  Pow2(b) + FlagWord(bits \ {b})

\* The l2_flags values with bits among the given ones.
FlagsOver(bits) == {FlagWord(B) : B \in SUBSET bits}

\* The variables of the file as a dataset: l2_flags holds the flags, every
\* other variable a reading of its own for each pixel.
DataSet(g) ==
    [v \in GeophysicalData(g.suite) |->
        [k \in 1..Len(g.l2_flags) |->
            <<IF v = "l2_flags" THEN g.l2_flags[k] ELSE k>>]]

NoCloudMask(flags) == [k \in DOMAIN flags |-> TRUE]

\* ~(src.l2_flags.cf == "CLDICE"): cf_xarray compares with the flag_masks
\* entry of the CLDICE meaning.
CloudMaskCf(flags) ==
    [k \in DOMAIN flags |-> ~(BitAnd(flags[k][1], Pow2(CldiceBit)) # 0)]

\* ds.where(cond)
Where(data, cond) ==
    [v \in DOMAIN data |->
        [k \in DOMAIN data[v] |-> IF cond[k] THEN data[v][k] ELSE <<>>]]

\* Lines 299-308: the source data, by suite.
SourceBranch(f) ==
    IF Contains(f, "SFREFL") THEN "SFREFL"
    ELSE IF Contains(f, "LANDVI") THEN "LANDVI"
    ELSE "neither"

\* Lines 323-328: the band layout, by suite.
LayoutBranch(f) ==
    IF Contains(f, "SFREFL") THEN "SFREFL"
    ELSE IF Contains(f, "LANDVI") THEN "LANDVI"
    ELSE "neither"

\* The band count of the LANDVI profile.
LandviCount == 11

Tif == <<".", "tif">>

\* The call, for a reprojected grid of h lines and w pixels per line.
NcToGtiffResult(f, g, h, w) ==
    IF SourceBranch(f) = "neither"
    THEN [state |-> "returned", handed |-> <<>>, files |-> {}]
    ELSE IF SourceBranch(f) = "SFREFL" /\ "rhos" \notin GeophysicalData(g.suite)
    THEN [state |-> "raised", handed |-> <<>>, files |-> {}]
    ELSE LET \* the LANDVI dataset is cloud-masked when l2_flags is a flag
             \* variable
             src ==
                IF SourceBranch(f) = "SFREFL"
                THEN [kind |-> "DataArray", data |-> [v \in {"rhos"} |-> DataSet(g)[v]]]
                ELSE [kind |-> "Dataset",
                      data |-> IF g.flag_variable
                               THEN Where(DataSet(g), CloudMaskCf(DataSet(g).l2_flags))
                               ELSE DataSet(g)]
             \* src.rio.reproject(...): src resampled to the new grid
             dst ==
                [kind |-> src.kind, from |-> src.data,
                 shape |-> IF src.kind = "DataArray" THEN <<g.bands, h, w>>
                           ELSE <<h, w>>]
             \* dst.shape of a dataset, dst.cire of an array or of a dataset
             \* without cire: AttributeError
             noLayout ==
                \/ (LayoutBranch(f) = "SFREFL" /\ dst.kind # "DataArray")
                \/ (LayoutBranch(f) = "LANDVI" /\ "cire" \notin DOMAIN dst.from)
         IN  IF noLayout
             THEN [state |-> "raised", handed |-> <<src>>, files |-> {}]
             ELSE [state |-> "written",
                   handed |-> <<src>>,
                   files |->
                       {[name |-> WithSuffix(f, Tif),
                         data |-> dst,
                         layout |-> LayoutBranch(f),
                         profile |->
                             IF LayoutBranch(f) = "SFREFL"
                             THEN [width |-> dst.shape[2 + 1],
                                   height |-> dst.shape[1 + 1],
                                   count |-> dst.shape[0 + 1],
                                   dtype |-> "float32"]
                             ELSE [width |-> dst.shape[1 + 1],
                                   height |-> dst.shape[0 + 1],
                                   count |-> LandviCount,
                                   dtype |-> "float32"]]}]

NcToGtiff ==
    /\ prog = "nc_to_gtiff"
    /\ gtiff = <<>>
    /\ \E h, w \in 1..MaxGrid : gtiff' = <<NcToGtiffResult(fpath, granule, h, w)>>
    /\ UNCHANGED <<prog, earlyVars, statVars, landVars, trainVars, poolVars, daskVars,
                   fpath, granule>>

(***************************************************************************)
(* Land_tutorial.py: the cloud mask by bit position                        *)
(*                                                                         *)
(* l2_flags is a 32-bit signed integer: bit 31 is its sign.                *)
(***************************************************************************)
\* The l2_flags values of the scene: the bits of LAND (1), of CLDICE and the
\* bit next to it, without and with bit 31.
SceneFlags ==
    LET low == FlagsOver({1, CldiceBit, CldiceBit + 1})
    IN  low \cup {(x - Pow2(30)) - Pow2(30) : x \in low}

CloudMaskAnyBit(flags) == [k \in DOMAIN flags |-> ~(flags[k][1] # 0)]

\* ~((ds.l2_flags & (1 << bit_position)) != 0): 1 << k is 1 * 2^k.
CloudMaskBit(flags) ==
    [k \in DOMAIN flags |-> ~(BitAnd(flags[k][1], 1 * Pow2(CldiceBit)) # 0)]

\* cloudmasked_ds = ds.where(...)
CloudMaskDs ==
    /\ prog = "land_tutorial"
    /\ cloudmasked = <<>>
    /\ cloudmasked' = <<Where(ds, CloudMaskBit(ds.l2_flags))>>
    /\ UNCHANGED <<prog, earlyVars, statVars, gtiffVars, trainVars, poolVars, daskVars,
                   ds>>

(***************************************************************************)
(* ml_cloud_mask.py: the minimal training loop                             *)
(***************************************************************************)
BATCH_SIZE == 16

NUM_BATCHES == 1000

\* len(train_loader): DataLoader keeps the last, smaller batch.
NumBatchesOf(len) == (len + BATCH_SIZE - 1) \div BATCH_SIZE

BreaksLate(batch_idx) == batch_idx > NUM_BATCHES

\* if batch_idx >= NUM_BATCHES: break
Breaks(batch_idx) == batch_idx >= NUM_BATCHES

\* One round of the for statement: enumerate draws the next batch of the
\* loader, or the loader is exhausted; then the body runs up to its break or
\* to its end.  An entry of a list is recorded as the batch it comes from.
TrainRound ==
    /\ prog = "training_loop"
    /\ trainPc = "loop"
    /\ IF fetched = NumBatchesOf(trainLen)
       THEN /\ trainPc' = "done"
            /\ UNCHANGED <<fetched, losses, accs, numsValid>>
       ELSE LET batch_idx == fetched
            IN  /\ fetched' = fetched + 1
                /\ IF Breaks(batch_idx)
                   THEN /\ trainPc' = "done"
                        /\ UNCHANGED <<losses, accs, numsValid>>
                   ELSE /\ losses' = Append(losses, batch_idx)
                        /\ accs' = Append(accs, batch_idx)
                        /\ numsValid' = Append(numsValid, batch_idx)
                        /\ UNCHANGED trainPc
    /\ UNCHANGED <<prog, earlyVars, statVars, gtiffVars, landVars, poolVars, daskVars,
                   trainLen>>

(***************************************************************************)
(* docs/_ext/source_button.py under a parallel build                       *)
(*                                                                         *)
(* setup declares the extension parallel_write_safe, so Sphinx may emit    *)
(* html-page-context for different pages in different processes at the     *)
(* same time.  The processes share the file system only; a step below is   *)
(* what one process does between two accesses to it.                       *)
(***************************************************************************)
\* path.parent: the path without its last component.
Parent(path) == SubSeq(path, 1, LastIndexOf(path, "/") - 1)

Starting(p) ==
    [pc |-> "start", todo |-> <<>>, path |-> <<>>, notebook |-> <<>>,
     header |-> ThemeHeader(p, pages[p], download)]

\* One step of the callback for page p.
PoolStep(p) ==
    LET \* Lines 11-23: the buttons, the notebook read from the source and its format.
        Read ==
            /\ worker[p].pc = "start"
            /\ worker' =
                  [worker EXCEPT ![p] =
                      IF MdButton(@.header) = <<>> THEN [@ EXCEPT !.pc = "done"]
                      ELSE IF PagesAt(ReadPath(p)) = {} THEN [@ EXCEPT !.pc = "raised"]
                      ELSE LET q == CHOOSE q \in PagesAt(ReadPath(p)) : TRUE
                           IN  IF pages[q] = "myst"
                               THEN [@ EXCEPT !.pc = "mkdir",
                                              !.notebook = <<q>>,
                                              !.path = WritePath(p),
                                              !.todo = <<[dir |-> Parent(WritePath(p)),
                                                          parents |-> TRUE]>>]
                               ELSE [@ EXCEPT !.pc = "done"]]
            /\ UNCHANGED <<dirs, files>>

        \* Line 24, Path.mkdir(parents=True, exist_ok=True): one os.mkdir call.  On
        \* FileExistsError the directory is there and exist_ok accepts it; on
        \* FileNotFoundError the parent is made first and the call repeated, without
        \* parents.
        Mkdir ==
            /\ worker[p].pc = "mkdir"
            /\ LET t == Head(worker[p].todo)
                   rest == Tail(worker[p].todo)
                   popped == [worker EXCEPT ![p].todo = rest,
                                            ![p].pc = IF rest = <<>> THEN "open" ELSE "mkdir"]
               IN  IF t.dir \in dirs
                   THEN worker' = popped /\ dirs' = dirs
                   ELSE IF Parent(t.dir) \in dirs
                   THEN worker' = popped /\ dirs' = dirs \cup {t.dir}
                   ELSE IF ~t.parents
                   THEN worker' = [worker EXCEPT ![p].pc = "mkdir raised"] /\ dirs' = dirs
                   ELSE /\ worker' =
                              [worker EXCEPT
                                  ![p].todo = <<[dir |-> Parent(t.dir), parents |-> TRUE],
                                                [dir |-> t.dir, parents |-> FALSE]>> \o rest]
                        /\ dirs' = dirs
            /\ UNCHANGED files

        \* Line 25, jupytext.write: open(path, "w") creates or truncates the file.
        Open ==
            /\ worker[p].pc = "open"
            /\ worker' = [worker EXCEPT ![p].pc = "write"]
            /\ files' = [f \in DOMAIN files \cup {worker[p].path} |->
                            IF f = worker[p].path THEN <<>> ELSE files[f]]
            /\ UNCHANGED dirs

        \* Line 25, jupytext.write: the text of the notebook is written and the file
        \* closed.
        Write ==
            /\ worker[p].pc = "write"
            /\ worker' = [worker EXCEPT ![p].pc = "insert"]
            /\ files' = [files EXCEPT ![worker[p].path] = worker[p].notebook]
            /\ UNCHANGED dirs

        \* Lines 26-31: the button is put in front of the dropdown of the context.
        Insert ==
            /\ worker[p].pc = "insert"
            /\ LET header == worker[p].header
                   g == FirstIndex(header, Downloads(header))
               IN  worker' =
                      [worker EXCEPT
                          ![p].pc = "done",
                          ![p].header[g].buttons =
                              InsertFirst(@, IpynbButtonDocs(MdButton(header)[1]))]
            /\ UNCHANGED <<dirs, files>>
    IN  /\ prog = "docs_parallel"
        /\ Read \/ Mkdir \/ Open \/ Write \/ Insert
        /\ UNCHANGED <<prog, earlyVars, statVars, gtiffVars, landVars, trainVars,
                       daskVars>>

(***************************************************************************)
(* dask_gridding.py and oci_gridding.py: the dask Clients                  *)
(*                                                                         *)
(* A notebook runs its cells from top to bottom; only the cells that use   *)
(* dask are kept.                                                          *)
(***************************************************************************)
\* dask_gridding.py, lines 330, 343, 353, 433 and 441-454;
\* oci_gridding.py, lines 333, 346, 356, 413 and 480.
Cells(nb) ==
    IF nb = "dask_gridding"
    THEN <<"Client", "compute", "close", "Client", "griddata", "concat">>
    ELSE <<"Client", "compute", "close", "Client", "griddata">>

\* The next cell of the notebook.
RunCell ==
    /\ prog = "gridding"
    /\ cell < Len(Cells(notebook))
    /\ cell' = cell + 1
    /\ LET op == Cells(notebook)[cell + 1]
       IN  IF op = "Client"
           \* client = Client(processes=False, ...)
           THEN /\ clients' = Append(clients, "running")
                /\ client' = Len(clients) + 1
           ELSE IF op = "close"
           \* client.close()
           THEN /\ clients' = [clients EXCEPT ![client] = "closed"]
                /\ client' = client
           ELSE UNCHANGED <<clients, client>>
    /\ UNCHANGED <<prog, earlyVars, statVars, gtiffVars, landVars, trainVars, poolVars,
                   notebook>>

(***************************************************************************)
(* Initial states and the next-state relation.                             *)
(***************************************************************************)
\* The values the variables of the scripts have in a run of another script:
\* only the variables of the scripts in run are left to the initial state.
Idle(run) ==
    /\ "split" \in run
       \/ (numImgs = 0 /\ splitFiles = [nm \in SplitNames |-> <<>>]
           /\ splitCall = NoCall /\ calls = 0)
    /\ "mask" \in run
       \/ (corrupt = {} /\ split = NoSplit /\ datasets = NoSplit /\ item = NoItem)
    /\ "par" \in run
       \/ (par = <<>> /\ parFile = NoFile)
    /\ "setup" \in run
       \/ (reqs = <<>> /\ script = [Scripts EXCEPT !.updated = FALSE])
    /\ "src_ext" \in run
       \/ (hdr = <<>> /\ hdrCall = [called |-> FALSE, before |-> <<>>])
    /\ "docs_ext" \in run
       \/ (pages = <<>> /\ download = FALSE /\ docCtx = <<>> /\ built = {})
    /\ "aolp" \in run
       \/ (qu = <<0, 0>> /\ aolp = <<>> /\ sign = <<>>)
    /\ "stat" \in run
       \/ (sample = <<>> /\ stats = <<>>)
    /\ "gtiff" \in run
       \/ (fpath = <<>> /\ gtiff = <<>>
           /\ granule = [suite |-> "OTHER", flag_variable |-> FALSE,
                         l2_flags |-> <<>>, bands |-> 0])
    /\ "land" \in run
       \/ (ds = <<>> /\ cloudmasked = <<>>)
    /\ "train" \in run
       \/ (trainLen = 0 /\ trainPc = "idle" /\ fetched = 0
           /\ losses = <<>> /\ accs = <<>> /\ numsValid = <<>>)
    /\ "pool" \in run
       \/ (worker = <<>> /\ dirs = {} /\ files = <<>>)
    /\ "dask" \in run
       \/ (notebook = "" /\ cell = 0 /\ clients = <<>> /\ client = 0)

InitSplit ==
    /\ prog = "generate_split"
    /\ numImgs \in 0..MaxImgs
    /\ splitFiles = [nm \in SplitNames |-> <<>>]
    /\ splitCall = NoCall
    /\ calls = 0
    /\ Idle({"split"})

\* The directory listing of line 150 alone, for larger directories.
InitSizes ==
    /\ prog = "split_sizes"
    /\ numImgs \in 0..MaxCount
    /\ splitFiles = [nm \in SplitNames |-> <<>>]
    /\ splitCall = NoCall
    /\ calls = 0
    /\ Idle({"split"})

\* The state after lines 176 and 236-239: generate_split('default_split') wrote
\* the file, json.load read it back and the three datasets were built from it.
InitMask ==
    /\ prog = "cloud_mask"
    /\ numImgs \in 0..MaxImgs
    /\ \E idxs \in Shuffles(numImgs) :
          /\ splitFiles = [nm \in SplitNames |->
                              IF nm = "default_split"
                              THEN <<MakeSplit(idxs, numImgs)>> ELSE <<>>]
          /\ split = MakeSplit(idxs, numImgs)
    /\ splitCall = NoCall
    /\ calls = 0
    /\ corrupt \in SubsetsUpTo(ImageFiles(numImgs), MaxCorrupt)
    /\ datasets = [m \in Modes |-> DatasetInit(split, m)]
    /\ item = NoItem
    /\ Idle({"split", "mask"})

\* write_par is about to be called with a dictionary of string values.
InitPar ==
    /\ prog = "write_par"
    /\ par \in ParDicts
    /\ parFile = NoFile
    /\ Idle({"par"})

\* update-setup is about to run on a requirements file and on a script that
\* starts with an inline metadata block.
InitSetup ==
    /\ prog = "update_setup"
    /\ reqs \in SeqsUpTo(ReqChars, MaxReqLen)
    /\ script = Scripts
    /\ Idle({"setup"})

\* sphinx-book-theme's add_header_buttons has filled context["header_buttons"]
\* of a page built from a '.py' source; the callback has not run yet.
InitSrcExt ==
    /\ prog = "src_ext"
    /\ \E stem \in SeqsUpTo(UrlChars, MaxStemLen) : hdr \in Headers(PyUrl(stem))
    /\ hdrCall = [called |-> FALSE, before |-> <<>>]
    /\ Idle({"src_ext"})

\* A build of a book of one or two pages: the theme has filled the header
\* buttons of every page and no callback has run yet.
InitDocsExt ==
    /\ prog = "docs_ext"
    /\ \E p, q \in DocNames : pages \in [{p, q} -> Kinds]
    /\ download \in BOOLEAN
    /\ docCtx = [p \in DOMAIN pages |->
                    [state |-> "pending", wrote |-> <<>>,
                     header |-> ThemeHeader(p, pages[p], download)]]
    /\ built = {}
    /\ Idle({"docs_ext"})

\* A point of the (q, u) grid, the case studies among them, before aolp_fun2
\* is applied to it.  The grid is scaled to integer coordinates.
InitAolp ==
    /\ prog = "aolp"
    /\ qu \in (-GridMax..GridMax) \X (-GridMax..GridMax)
    /\ aolp = <<>>
    /\ sign = <<>>
    /\ Idle({"aolp"})

\* mean_and_std is about to be called on an array of one to MaxSampleLen
\* numbers.
InitStat ==
    /\ prog = "mean_and_std"
    /\ sample \in SeqsUpTo(0..MaxSample, MaxSampleLen) \ {<<>>}
    /\ stats = <<>>
    /\ Idle({"stat"})

\* nc_to_gtiff is about to be called on the path of a Level-2 file; the flags
\* of its pixels are LAND (bit 1) and CLDICE.
InitGtiff ==
    /\ prog = "nc_to_gtiff"
    /\ fpath \in FilePaths
    /\ \E suite \in ContentSuites(fpath) :
          granule \in
              [suite : {suite},
               flag_variable : IF suite = "LANDVI" THEN BOOLEAN ELSE {TRUE},
               l2_flags : IF suite = "LANDVI"
                          THEN SeqsUpTo(FlagsOver({1, CldiceBit}), MaxPixels) \ {<<>>}
                          ELSE {<<0>>},
               bands : IF suite = "SFREFL" THEN 1..MaxBands ELSE {0}]
    /\ gtiff = <<>>
    /\ Idle({"gtiff"})

\* The surface reflectance scene is open as ds; the mask is not applied yet.
InitLand ==
    /\ prog = "land_tutorial"
    /\ \E flags \in SeqsUpTo(SceneFlags, MaxPixels) \ {<<>>} :
          ds = DataSet([suite |-> "SFREFL", l2_flags |-> flags])
    /\ cloudmasked = <<>>
    /\ Idle({"land"})

\* Lines 375-403: the loader is built on a training set of a few images, or of
\* about NUM_BATCHES batches; the three lists are empty.
InitTrain ==
    /\ prog = "training_loop"
    /\ trainLen \in (1..MaxTrainLen)
                     \cup {BATCH_SIZE * NUM_BATCHES + n : n \in {-BATCH_SIZE, 0, 1}}
    /\ trainPc = "loop"
    /\ fetched = 0
    /\ losses = <<>>
    /\ accs = <<>>
    /\ numsValid = <<>>
    /\ Idle({"train"})

\* A parallel build of a book of two pages, each written by a process of its
\* own: the theme has filled the header buttons and no callback has started.
\* The builder has made the output directory; _sources exists if an earlier
\* build made it.
InitPool ==
    /\ prog = "docs_parallel"
    /\ \E p, q \in DocNames : p # q /\ pages \in [{p, q} -> Kinds]
    /\ download = TRUE
    /\ docCtx = <<>>
    /\ built = {}
    /\ worker = [p \in DOMAIN pages |-> Starting(p)]
    /\ LET made == {<<"docs">>, <<"docs", "/", "_build">>,
                    <<"docs", "/", "_build", "/", "html">>}
       IN  dirs \in {made, made \cup {Parent(BuildDir)}}
    /\ files = <<>>
    /\ Idle({"docs_ext", "pool"})

\* A gridding notebook before its first cell.
InitDask ==
    /\ prog = "gridding"
    /\ notebook \in {"dask_gridding", "oci_gridding"}
    /\ cell = 0
    /\ clients = <<>>
    /\ client = 0
    /\ Idle({"dask"})

Init ==
    InitSplit \/ InitSizes \/ InitMask \/ InitPar \/ InitSetup \/ InitSrcExt
    \/ InitDocsExt \/ InitAolp \/ InitStat \/ InitGtiff
    \/ InitLand \/ InitTrain \/ InitPool \/ InitDask

Next ==
    \/ SplitSizes
    \/ WritePar
    \/ UpdateSetup
    \/ UpdateHeaderSourceButtonsSrc
    \/ AolpFun2
    \/ GetSign
    \/ MeanAndStd
    \/ NcToGtiff
    \/ CloudMaskDs
    \/ TrainRound
    \/ RunCell
    \/ /\ prog = "docs_ext"
       /\ \E p \in DOMAIN pages : UpdateHeaderSourceButtonsDocs(p)
    \/ /\ prog = "docs_parallel"
       /\ \E p \in DOMAIN pages : PoolStep(p)
    \/ /\ prog = "generate_split"
       /\ \E name \in SplitNames, replace \in BOOLEAN, idxs \in Shuffles(numImgs) :
             GenerateSplit(name, replace, idxs)
    \/ \E mode \in Modes, idx \in 0..(MaxImgs + 1) : GetItem(mode, idx)

Spec == Init /\ [][Next]_vars

(***************************************************************************)
(* Properties of generate_split.                                           *)
(***************************************************************************)
\* C1: generate_split(name, replace=False) raises ValueError whenever
\* '<name>.json' exists and then leaves the file as it was; with replace=True,
\* or when the file does not exist, it does not raise and the file holds the
\* new split.
C1_RaisesUnlessReplace ==
    splitCall.done =>
        LET existed == splitCall.before # <<>>
            file    == splitFiles[splitCall.name]
        IN  /\ (~splitCall.replace /\ existed) =>
                   (splitCall.raised /\ file = splitCall.before)
            /\ (splitCall.replace \/ ~existed) =>
                   (~splitCall.raised /\ file = <<splitCall.made>>)

\* A call with replace=False met an existing file whose contents differ from
\* the split it computed.
C1_Witness ==
    /\ splitCall.done
    /\ ~splitCall.replace
    /\ splitCall.before # <<>>
    /\ splitCall.before # <<splitCall.made>>
    /\ splitCall.raised

\* C4: the sizes are non-negative, num_val = num_test = round(0.15 * n), and
\* after the rounding correction the three sizes add up to n.
C4_SizesAddUp ==
    splitCall.sized =>
        LET n == splitCall.n
            t == splitCall.sizes[1]
            v == splitCall.sizes[2]
            e == splitCall.sizes[3]
        IN  /\ t >= 0 /\ v >= 0 /\ e >= 0
            /\ v = e
            /\ 100 * v - 50 <= 15 * n /\ 15 * n <= 100 * v + 50
            /\ t + v + e = n

\* The sizes were computed where the three rounded sizes do not add up to n
\* and the validation and test sets are not empty.
C4_Witness ==
    /\ splitCall.sized
    /\ NumTrainRounded(splitCall.n) + NumVal(splitCall.n) + NumTest(splitCall.n)
          # splitCall.n
    /\ splitCall.sizes[2] > 0

(***************************************************************************)
(* Properties of CloudMaskDataset.                                         *)
(***************************************************************************)
\* C2: __getitem__(i) of the dataset of mode m loads the image whose index is
\* split[m][i], so datasets of modes with disjoint index lists never load the
\* same image.
C2_LoadsIndexOfMode ==
    item.called =>
        /\ item.loaded = datasets[item.mode][item.idx + 1]
        /\ \A m \in Modes \ {item.mode} :
              Range(datasets[m]) \cap Range(datasets[item.mode]) = {} =>
                  item.loaded \notin Range(datasets[m])

\* C3: when any of the six images of the instance cannot be identified,
\* __getitem__ does not raise and returns all-zero arrays of shapes
\* (64, 64, 12), (64, 64) and (64, 64).
C3_ZerosOnUnidentified ==
    (item.called /\ \E f \in FileKinds : <<item.loaded, f>> \in corrupt) =>
        /\ ~item.raised
        /\ item.input = Zeros(<<64, 64, 12>>)
        /\ item.valid = Zeros(<<64, 64>>)
        /\ item.labels = Zeros(<<64, 64>>)

\* __getitem__ was called on an instance whose label image is the one that
\* cannot be identified.
C3_Witness ==
    /\ item.called
    /\ <<item.loaded, "output">> \in corrupt
    /\ item.valid.fill = "zeros"

(***************************************************************************)
(* Properties of write_par.                                                *)
(***************************************************************************)
RECURSIVE PlainLines(_)
PlainLines(rows) ==
    IF rows = <<>> THEN <<>>
    ELSE Head(rows)[1] \o <<"=">> \o Head(rows)[2] \o <<"\r", "\n">>
         \o PlainLines(Tail(rows))

\* C5: the file written by write_par holds, for every item of par and in
\* order, one line name=value with the text of the value unaltered, and
\* nothing else.
C5_PlainNameValueLines == parFile.written => parFile.text = PlainLines(par)

(***************************************************************************)
(* Properties of update-setup.                                             *)
(***************************************************************************)
IsCommentLine(line) ==
    \E k \in 1..Len(line) : line[k] = "#" /\ \A j \in 1..(k - 1) : line[j] = " "

\* C6: after main the block of the script is a "script" block whose
\* dependencies are the lines of the requirements file that are not comment
\* lines, in file order, and no dependency is the empty string.
C6_DependenciesAreRequirements ==
    script.updated =>
        LET deps == script.toml.dependencies
        IN  /\ script.type = "script"
            /\ deps = SelectSeq(SplitLines(reqs), LAMBDA l : ~IsCommentLine(l))
            /\ \A i \in 1..Len(deps) : deps[i] # <<>>

(***************************************************************************)
(* Properties of src/_ext/source_button.py.                                *)
(***************************************************************************)
HasPyDropdown(buttons) ==
    \E g \in 1..Len(buttons) :
        /\ IsDownload(buttons[g])
        /\ \E k \in 1..Len(buttons[g].buttons) : buttons[g].buttons[k].text = ".py"

\* C7: when the header has a download dropdown with a '.py' button, after the
\* callback the dropdown starts with a new '.ipynb' button followed by the
\* buttons it had, in their order and unchanged, and the other header buttons
\* are unchanged; otherwise header_buttons is unchanged.
C7_PrependsIpynbButton ==
    hdrCall.called =>
        LET before == hdrCall.before
        IN  IF HasPyDropdown(before)
            THEN /\ Len(hdr) = Len(before)
                 /\ \A g \in 1..Len(before) :
                       IF IsDownload(before[g])
                       THEN /\ hdr[g].icon = before[g].icon
                            /\ hdr[g].buttons # <<>>
                            /\ Head(hdr[g].buttons).text = ".ipynb"
                            /\ Tail(hdr[g].buttons) = before[g].buttons
                       ELSE hdr[g] = before[g]
            ELSE hdr = before

\* The callback ran on a dropdown that holds a button before its '.py'
\* button, and put the '.ipynb' button in front of both.
C7_Witness ==
    /\ hdrCall.called
    /\ \E g \in 1..Len(hdr) :
          /\ IsDownload(hdr[g])
          /\ Len(hdr[g].buttons) >= 3
          /\ hdr[g].buttons[1].text = ".ipynb"
          /\ hdr[g].buttons[2].text = ".pdf"
          /\ hdr[g].buttons[3].text = ".py"

(***************************************************************************)
(* Properties of docs/_ext/source_button.py.                               *)
(***************************************************************************)
\* C8: the callback inserts the '.ipynb' button in front of the dropdown if
\* and only if the dropdown has a '.md' button and the jupytext format_name of
\* the page is 'myst'; then the notebook of the page has been written to
\* docs/_build/html/_sources/<pagename>.ipynb; otherwise nothing was written
\* and the header buttons are unchanged.
C8_InsertsIffMyst ==
    \A p \in DOMAIN docCtx :
        docCtx[p].state # "pending" =>
            LET before == ThemeHeader(p, pages[p], download)
                after == docCtx[p].header
                inserted ==
                    \E g \in 1..Len(after) :
                        /\ IsDownload(after[g])
                        /\ Head(after[g].buttons).text = ".ipynb"
                        /\ Tail(after[g].buttons) = before[g].buttons
            IN  /\ inserted <=> (MdButton(before) # <<>> /\ pages[p] = "myst")
                /\ inserted => <<BuildDir \o p \o Ipynb, p>> \in built
                /\ ~inserted => (docCtx[p].wrote = <<>> /\ after = before)

(***************************************************************************)
(* Properties of aolp_fun2 and get_sign.                                   *)
(***************************************************************************)
\* C9: aolp_fun2(q, u) lies in [0, 180] degrees and is half of arctan2(u, q),
\* 180 degrees more when that half is negative.
C9_AolpRange ==
    aolp # <<>> =>
        LET h == ToDegrees(Half(Arctan2(qu[2], qu[1])))
        IN  /\ 0 <= aolp[1].lo /\ aolp[1].lo <= aolp[1].hi /\ aolp[1].hi <= HalfTurn
            /\ aolp[1] = IF h.lo < 0 THEN Shifted(h, HalfTurn) ELSE h

\* aolp_fun2 was applied to a point with u < 0 < q, whose half angle is
\* negative, and returned an angle above 135 degrees.
C9_Witness ==
    /\ aolp # <<>>
    /\ qu[1] > 0 /\ qu[2] < 0
    /\ 2 * aolp[1].lo >= 3 * (HalfTurn \div 2)

Sgn(x) == IF x > 0 THEN 1 ELSE IF x < 0 THEN -1 ELSE 0

C11_MeanAndStdEqualsNumpy ==
    stats # <<>> /\ Len(sample) >= 2 =>
        /\ stats[1].mean = NumpyMean(sample)
        /\ stats[1].std = NumpyStd(sample)

(***************************************************************************)
(* Properties of nc_to_gtiff.                                              *)
(***************************************************************************)
\* C12: on a path that contains neither suite name the call returns without
\* reprojecting or writing; on a path that contains one it writes exactly one
\* file, fpath with the suffix '.tif', with the band layout of the branch that
\* selected the source data.
C12_WritesOneTifOrReturns ==
    gtiff # <<>> =>
        IF ~Contains(fpath, "SFREFL") /\ ~Contains(fpath, "LANDVI")
        THEN gtiff[1].state = "returned" /\ gtiff[1].handed = <<>> /\ gtiff[1].files = {}
        ELSE /\ Cardinality(gtiff[1].files) = 1
             /\ \A file \in gtiff[1].files :
                    /\ file.name = WithSuffix(fpath, Tif)
                    /\ file.layout = SourceBranch(fpath)

\* C13: of a LANDVI file whose l2_flags is a flag variable, the pixels with the
\* CLDICE flag are missing in every variable handed to reprojection and
\* exported, and the other pixels keep their values.
C13_LandviCloudMasked ==
    gtiff # <<>> /\ granule.suite = "LANDVI" /\ granule.flag_variable =>
        \A handed \in Range(gtiff[1].handed)
                       \cup {[data |-> file.data.from] : file \in gtiff[1].files} :
            \A v \in DOMAIN handed.data, k \in 1..Len(granule.l2_flags) :
                handed.data[v][k] =
                    IF (granule.l2_flags[k] \div Pow2(CldiceBit)) % 2 = 1
                    THEN <<>>
                    ELSE DataSet(granule)[v][k]

C13_Witness ==
    /\ gtiff # <<>> /\ granule.suite = "LANDVI" /\ granule.flag_variable
    /\ gtiff[1].state = "written"
    /\ \E k, j \in 1..Len(granule.l2_flags) :
          /\ gtiff[1].handed[1].data["cire"][k] = <<>>
          /\ gtiff[1].handed[1].data["cire"][j] # <<>>
          /\ granule.l2_flags[j] # 0

(***************************************************************************)
(* Properties of the cloud mask of Land_tutorial.                          *)
(***************************************************************************)
\* Bit 9 of a 32-bit two's complement value.
CldiceSet(x) == (x \div Pow2(CldiceBit)) % 2 = 1

\* C14: the mask keeps the value of a pixel if and only if bit 9 of its
\* l2_flags is clear and makes it NaN if and only if the bit is set, whatever
\* the other bits are.
C14_MaskIffCldiceBit ==
    cloudmasked # <<>> =>
        \A v \in DOMAIN ds : \A k \in DOMAIN ds[v] :
            /\ cloudmasked[1][v][k] = ds[v][k] <=> ~CldiceSet(ds["l2_flags"][k][1])
            /\ cloudmasked[1][v][k] = <<>> <=> CldiceSet(ds["l2_flags"][k][1])

C14_Witness ==
    /\ cloudmasked # <<>>
    /\ \E k, j \in DOMAIN ds["rhos"] :
          /\ ds["l2_flags"][k][1] < 0 /\ cloudmasked[1]["rhos"][k] = <<>>
          /\ ds["l2_flags"][j][1] > 0 /\ cloudmasked[1]["rhos"][j] = ds["rhos"][j]

(***************************************************************************)
(* Properties of the training loop.                                        *)
(***************************************************************************)
\* C15: the loop processes min(NUM_BATCHES, len(train_loader)) batches: it
\* never processes more, it draws at most one batch beyond them, and when it
\* has ended losses, accs and nums_valid have that many entries each.
C15_RunsOnNumBatches ==
    LET n == Min(NUM_BATCHES, NumBatchesOf(trainLen))
    IN  /\ Len(losses) <= n /\ Len(accs) <= n /\ Len(numsValid) <= n
        /\ fetched <= n + 1
        /\ trainPc = "done" =>
              Len(losses) = n /\ Len(accs) = n /\ Len(numsValid) = n

C15_Witness ==
    /\ trainPc = "done"
    /\ NumBatchesOf(trainLen) > NUM_BATCHES
    /\ Len(losses) = NUM_BATCHES

(***************************************************************************)
(* The URL of the '.ipynb' button, in both extensions.                     *)
(***************************************************************************)
\* The URL with its last three characters, the extension, replaced.
ExtensionChanged(url) == SubSeq(url, 1, Len(url) - 3) \o Ipynb

\* The button a callback inserted into a header, with the button it was made
\* from: the first button of the download dropdown and the first button with
\* the text of the source after it.
Inserted(header, text) ==
    LET dropdown == header[FirstIndex(header, Downloads(header))].buttons
        rest == Tail(dropdown)
    IN  [new |-> Head(dropdown),
         source |-> rest[FirstIndex(rest, WithText(rest, text))]]

\* C16: the URL of the inserted button is the URL of the source button with
\* only its trailing extension changed to '.ipynb', and the button differs
\* from the source button in nothing but the URL and the text.
C16_OnlyExtensionChanged ==
    /\ hdrCall.called /\ hdr # hdrCall.before =>
          LET b == Inserted(hdr, ".py")
          IN  b.new = [b.source EXCEPT !.text = ".ipynb",
                                       !.url = ExtensionChanged(b.source.url)]
    /\ \A p \in DOMAIN docCtx :
          docCtx[p].wrote # <<>> =>
              LET b == Inserted(docCtx[p].header, ".md")
              IN  b.new = [b.source EXCEPT !.text = ".ipynb",
                                           !.url = ExtensionChanged(b.source.url)]

(***************************************************************************)
(* Properties of the parallel build.                                       *)
(***************************************************************************)
\* The callback of page p has opened the file at its path for writing.
Writes(p) == worker[p].path # <<>> /\ worker[p].pc \in {"write", "insert", "done"}

\* C17: callbacks of two different pagenames write to two different paths, the
\* creation of the directories never makes a callback fail, and the context of
\* a page is changed by the callback of that page only.
C17_ParallelWriteSafe ==
    \A p \in DOMAIN worker :
        /\ \A q \in DOMAIN worker \ {p} :
               Writes(p) /\ Writes(q) => worker[p].path # worker[q].path
        /\ worker[p].pc # "mkdir raised"
        /\ worker[p].pc # "done" => worker[p].header = Starting(p).header

(***************************************************************************)
(* Properties of the dask Clients of the gridding notebooks.               *)
(***************************************************************************)
Running == {i \in DOMAIN clients : clients[i] = "running"}

\* C18: at most one Client is open at any time, and when the notebook has
\* run its last cell every Client it started is closed.
C18_OneClientAllClosed ==
    /\ Cardinality(Running) <= 1
    /\ prog = "gridding" /\ cell = Len(Cells(notebook)) => Running = {}
=============================================================================
